---- MODULE Spec2Model ----
(***************************************************************************)
(* Model of src/controller.rs of bevy_rts_camera: the three Update systems *)
(* zoom, pan and rotate, the RtsCameraControls component they read and the *)
(* RtsCamera target fields they write.                                     *)
(*                                                                         *)
(* Numbers.  Every f32 is a fixed-point integer with One standing for 1.0, *)
(* so 0.001 * y is (y * One) \div 1000 and 0.5 * x is x \div 2; the inputs *)
(* are chosen so that these divisions are exact.  Non-finite floats are    *)
(* outside the model.                                                      *)
(*                                                                         *)
(* Geometry.  target_focus.rotation is a yaw about the vertical axis in    *)
(* units of PI / HalfTurn (an eighth of a turn), counted modulo a full     *)
(* turn.  A Vec3 in the ground plane is a tuple of four integer            *)
(* coefficients on the unit vectors at 0, 45, 90 and 135 degrees; these    *)
(* four vectors are independent over the rationals, so two tuples are      *)
(* equal exactly when the vectors are.                                     *)
(*                                                                         *)
(* Events.  Events<T> is bevy's double buffer (events_a, events_b) and an  *)
(* EventReader<T> is a cursor local to its system: read() yields what lies *)
(* past the cursor and moves the cursor to the end, for every later read() *)
(* of the same system in the same frame as well.  The buffers are          *)
(* rotated by bevy's event_update_system at the start of a frame, but only *)
(* in frames for which a fixed-timestep tick was signalled, so whether a   *)
(* frame rotates them is an input of the frame.                            *)
(***************************************************************************)
EXTENDS Integers, Sequences, FiniteSets, TLC

VARIABLES
    cam,            \* [Entities -> RtsCamera]: target_focus, target_zoom
    ctrl,           \* [Entities -> RtsCameraControls]
    mouse_wheel,    \* Events<MouseWheel> and the cursor of zoom's EventReader
    mouse_motion,   \* Events<MouseMotion> and the cursor of rotate's EventReader
    input,          \* what the backend supplied for the frame in progress
    ran,            \* the systems that have run in the frame in progress
    pc,             \* "idle" between frames, "frame" while Update runs
    frame           \* number of frames begun

vars == <<cam, ctrl, mouse_wheel, mouse_motion, input, ran, pc, frame>>

\* ------------------------------------------------------------------ bounds

MaxFrames == 2

NumEntities == 2

Entities == 1..NumEntities

\* ------------------------------------------------------------- fixed point

One == 2000

HalfTurn == 4

FullTurn == 2 * HalfTurn

\* Option<T>: None is the empty sequence, Some(v) the sequence of v alone
None == <<>>

Some(v) == <<v>>

Min(a, b) == IF a < b THEN a ELSE b

Max(a, b) == IF a > b THEN a ELSE b

\* ------------------------------------------------------------------- Vec3

Vec3_ZERO == <<0, 0, 0, 0>>

VAdd(u, v) == <<u[1] + v[1], u[2] + v[2], u[3] + v[3], u[4] + v[4]>>

VScale(k, v) == <<k * v[1], k * v[2], k * v[3], k * v[4]>>

\* The unit vector at k eighths of a turn from -Z, counter-clockwise from above.
UnitDir(k) ==
    LET m == k % FullTurn
        e == [i \in 1..4 |-> IF i = (m % HalfTurn) + 1 THEN 1 ELSE 0]
    IN  IF m < HalfTurn THEN <<e[1], e[2], e[3], e[4]>>
        ELSE <<-e[1], -e[2], -e[3], -e[4]>>

\* Transform::forward/left/back/right: the local -Z, -X, +Z, +X axes.
forward(target_focus) == UnitDir(target_focus.rotation)

left(target_focus) == UnitDir(target_focus.rotation + 2)

back(target_focus) == UnitDir(target_focus.rotation + 4)

right(target_focus) == UnitDir(target_focus.rotation + 6)

\* Vec3::normalize_or_zero on the vectors pan can build: zero, a positive
\* multiple of a compass direction (one coefficient is not zero), or a
\* positive multiple of the sum of two directions a quarter turn apart (two
\* coefficients of equal size, two places apart), whose direction is the one
\* between them.  Any other vector (none is reachable from pan as written) is
\* returned as it is.
normalize_or_zero(v) ==
    LET sgn(n) == IF n > 0 THEN 1 ELSE IF n < 0 THEN -1 ELSE 0
        nz == {i \in 1..4 : v[i] # 0}
        axis == <<sgn(v[1]), sgn(v[2]), sgn(v[3]), sgn(v[4])>>
    IN  IF v = Vec3_ZERO THEN Vec3_ZERO
        ELSE IF Cardinality(nz) = 1 THEN axis
        ELSE IF nz = {1, 3} /\ v[1] = v[3] THEN VScale(sgn(v[1]), UnitDir(1))
        ELSE IF nz = {1, 3} /\ v[1] = -v[3] THEN VScale(sgn(v[3]), UnitDir(3))
        ELSE IF nz = {2, 4} /\ v[2] = v[4] THEN VScale(sgn(v[2]), UnitDir(2))
        ELSE IF nz = {2, 4} /\ v[2] = -v[4] THEN VScale(sgn(v[4]), UnitDir(4))
        ELSE v

\* Transform::rotate_local_y
rotate_local_y(target_focus, angle) ==
    [target_focus EXCEPT !.rotation = (target_focus.rotation + angle) % FullTurn]

\* f32::clamp
clamp(x, lo, hi) == Max(lo, Min(x, hi))

\* f32::remap: linear, not clamped
remap(x, in_min, in_max, out_min, out_max) ==
    out_min + ((x - in_min) * (out_max - out_min)) \div (in_max - in_min)

\* ----------------------------------------------------------------- events

\* Events<T> as seen by the one EventReader<T> of a system: of each of the
\* two buffers, the events that reader has not yet yielded.  (Events behind
\* the reader's cursor can never be yielded again, so they are not kept.)
EmptyEvents == [events_a |-> <<>>, events_b |-> <<>>]

\* EventWriter::send: the backend appends to the newer buffer.
send_batch(ev, batch) == [ev EXCEPT !.events_b = ev.events_b \o batch]

\* Events::update: events_a is dropped and events_b takes its place.
update(ev) == [events_a |-> ev.events_b, events_b |-> <<>>]

\* EventReader::read: every retained event past the reader's cursor
read(ev) == ev.events_a \o ev.events_b

\* the reader after read() has been iterated to its end: nothing is ahead of it
drained(ev) == EmptyEvents

\* ------------------------------------------------------ RtsCameraControls

KeyCodes == {"ArrowUp", "ArrowDown", "ArrowLeft", "ArrowRight"}

\* impl Default for RtsCameraControls; edge_pan_width 0.05 is One \div 20
DefaultControls ==
    [key_up |-> "ArrowUp", key_down |-> "ArrowDown", key_left |-> "ArrowLeft",
     key_right |-> "ArrowRight", button_rotate |-> "Middle",
     edge_pan_width |-> One \div 20, pan_speed |-> 15, enabled |-> TRUE]

\* ------------------------------------------------------------------- zoom

\* the closure of zoom's map: lines pass through, pixels are scaled by 0.001
scroll_amount(event) ==
    IF event.unit = "Line" THEN event.y * One ELSE (event.y * One) \div 1000

\* .fold(0.0, |acc, val| acc + val)
RECURSIVE fold_sum(_)
fold_sum(amounts) ==
    IF amounts = <<>> THEN 0 ELSE amounts[1] + fold_sum(Tail(amounts))

zoom_amount(events) == fold_sum([i \in 1..Len(events) |-> scroll_amount(events[i])])

\* new_zoom with the clamp left out (a faulty variant)
new_zoom_unclamped(target_zoom, amount) == target_zoom + amount \div 2

new_zoom(target_zoom, amount) == clamp(target_zoom + amount \div 2, 0, One)

\* zoom's filter letting every entity through (a faulty variant)
zoom_filter_none(controls) == TRUE

\* .filter(|(_, ctrl)| ctrl.enabled) of zoom
zoom_filter(controls) == controls.enabled

\* The loop of zoom over the query, entities in query order: every enabled
\* entity calls read() on the one EventReader of the system.
RECURSIVE zoom_loop(_, _, _)
zoom_loop(i, cams, ev) ==
    IF i > NumEntities THEN [cam |-> cams, events |-> ev]
    ELSE IF ~zoom_filter(ctrl[i]) THEN zoom_loop(i + 1, cams, ev)
    ELSE zoom_loop(i + 1,
                   [cams EXCEPT ![i].target_zoom = new_zoom(@, zoom_amount(read(ev)))],
                   drained(ev))

zoom_system(cams, ev) == zoom_loop(1, cams, ev)

\* -------------------------------------------------------------------- pan
\* `in` is what the frame supplies: button_input, mouse_input, window, time.

\* the four keyboard tests of pan
keyboard_delta(cm, controller, in) ==
    LET d0 == Vec3_ZERO
        d1 == IF controller.key_up \in in.button_input
              THEN VAdd(d0, forward(cm.target_focus)) ELSE d0
        d2 == IF controller.key_down \in in.button_input
              THEN VAdd(d1, back(cm.target_focus)) ELSE d1
        d3 == IF controller.key_left \in in.button_input
              THEN VAdd(d2, left(cm.target_focus)) ELSE d2
    IN  IF controller.key_right \in in.button_input
        THEN VAdd(d3, right(cm.target_focus)) ELSE d3

\* the edge pan condition without the keyboard test (a faulty variant)
edge_pan_guard_no_keyboard_test(delta, controller, in) ==
    controller.button_rotate \notin in.mouse_input

\* the edge pan condition without the rotate button test (a faulty variant)
edge_pan_guard_no_rotate_test(delta, controller, in) == delta = Vec3_ZERO

\* delta.length_squared() == 0.0 && !mouse_input.pressed(controller.button_rotate)
edge_pan_guard(delta, controller, in) ==
    delta = Vec3_ZERO /\ controller.button_rotate \notin in.mouse_input

\* the cursor tests with <= and >= (a faulty variant)
near_edge_inclusive(pos, extent, pan_width) ==
    [low |-> pos * One <= pan_width, high |-> pos * One >= extent * One - pan_width]

\* cursor < pan_width and cursor > extent - pan_width, both strict
near_edge(pos, extent, pan_width) ==
    [low |-> pos * One < pan_width, high |-> pos * One > extent * One - pan_width]

\* the four cursor tests of pan, added to delta
edge_delta(delta, cm, controller, in) ==
    IF in.window = None THEN delta
    ELSE IF in.window[1].cursor_position = None THEN delta
    ELSE LET primary_window == in.window[1]
             cursor_position == primary_window.cursor_position[1]
             win_w == primary_window.width
             win_h == primary_window.height
             pan_width == win_h * controller.edge_pan_width
             x == near_edge(cursor_position.x, win_w, pan_width)
             y == near_edge(cursor_position.y, win_h, pan_width)
             d1 == IF x.low THEN VAdd(delta, left(cm.target_focus)) ELSE delta
             d2 == IF x.high THEN VAdd(d1, right(cm.target_focus)) ELSE d1
             d3 == IF y.low THEN VAdd(d2, forward(cm.target_focus)) ELSE d2
         IN  IF y.high THEN VAdd(d3, back(cm.target_focus)) ELSE d3

\* delta.normalize_or_zero() * time.delta_seconds() * controller.pan_speed
\*     * cam.target_zoom.remap(0.0, 1.0, 1.0, 0.5)
pan_step(delta, cm, controller, in) ==
    VScale(in.delta_seconds * controller.pan_speed
               * remap(cm.target_zoom, 0, One, One, One \div 2),
           normalize_or_zero(delta))

\* the body of pan's loop
pan_entity(cm, controller, in) ==
    LET kd == keyboard_delta(cm, controller, in)
        delta == IF edge_pan_guard(kd, controller, in)
                 THEN edge_delta(kd, cm, controller, in) ELSE kd
        new_target == VAdd(cm.target_focus.translation, pan_step(delta, cm, controller, in))
    IN  [cm EXCEPT !.target_focus.translation = new_target]

\* .filter(|(_, ctrl)| ctrl.enabled) of pan
pan_filter(controls) == controls.enabled

pan_system(cams, in) ==
    [e \in Entities |->
        IF pan_filter(ctrl[e]) THEN pan_entity(cams[e], ctrl[e], in) ELSE cams[e]]

\* ----------------------------------------------------------------- rotate

\* .map(|e| e.delta).sum::<Vec2>()
RECURSIVE mouse_delta(_)
mouse_delta(events) ==
    IF events = <<>> THEN [x |-> 0, y |-> 0]
    ELSE LET rest == mouse_delta(Tail(events))
         IN  [x |-> events[1].delta.x + rest.x, y |-> events[1].delta.y + rest.y]

\* mouse_delta.x / primary_window.width() * PI
delta_x(md, primary_window) == (md.x * HalfTurn) \div primary_window.width

\* the yaw rotate applies for the events it read, when a window exists
rotated(target_focus, events, window) ==
    IF window = None THEN target_focus
    ELSE rotate_local_y(target_focus, -delta_x(mouse_delta(events), window[1]))

\* .filter(|(_, ctrl)| ctrl.enabled) of rotate
rotate_filter(controls) == controls.enabled

\* The loop of rotate over the query: read() is called only for an enabled
\* entity whose rotate button is pressed.
RECURSIVE rotate_loop(_, _, _, _)
rotate_loop(i, cams, ev, in) ==
    IF i > NumEntities THEN [cam |-> cams, events |-> ev]
    ELSE IF ~rotate_filter(ctrl[i]) THEN rotate_loop(i + 1, cams, ev, in)
    ELSE IF ctrl[i].button_rotate \notin in.mouse_input
         THEN rotate_loop(i + 1, cams, ev, in)
    ELSE rotate_loop(i + 1,
                     [cams EXCEPT ![i].target_focus = rotated(@, read(ev), in.window)],
                     drained(ev), in)

rotate_system(cams, ev, in) == rotate_loop(1, cams, ev, in)

\* ------------------------------------------------------------ frame inputs

Line(y) == [unit |-> "Line", y |-> y]

Pixel(y) == [unit |-> "Pixel", y |-> y]

Motion(x, y) == [delta |-> [x |-> x, y |-> y]]

Window(w, h, cursor) == [width |-> w, height |-> h, cursor_position |-> cursor]

At(x, y) == [x |-> x, y |-> y]

FrameInputs(keysets, buttons, windows, wheels, motions, updates) ==
    [button_input : keysets, mouse_input : buttons, window : windows,
     delta_seconds : {1}, wheel : wheels, motion : motions, event_update : updates]

\* batches of MouseWheel events a frame may deliver
WheelBatches ==
    { <<>>, <<Pixel(1000)>>, <<Line(10), Line(-10)>>, <<Line(-1)>>, <<Line(7)>> }

\* batches of MouseMotion events a frame may deliver
MotionBatches == { <<Motion(800, 0)>>, <<Motion(200, 0), Motion(-400, -10)>> }

\* a primary window with the cursor outside it
Quiet == Some(Window(800, 400, None))

\* primary window and cursor: no window, cursor outside, on the left edge,
\* inside the 5% band, in the middle, on the bottom right corner; and a
\* smaller window with the cursor on its top right corner
Windows ==
    { None } \cup
    { Some(Window(800, 400, c)) :
        c \in { None, Some(At(0, 200)), Some(At(10, 200)), Some(At(400, 200)),
                Some(At(800, 400)) } } \cup
    { Some(Window(400, 400, Some(At(400, 0)))) }

\* frames that exercise scrolling
ScrollInputs == FrameInputs({{}}, {{}}, {Quiet}, WheelBatches, {<<>>}, BOOLEAN)

\* frames that exercise dragging: the rotate button down with no window, a
\* window, a window of half the width; and the button up while the mouse moves
DragInputs ==
    FrameInputs({{}}, {{"Middle"}}, {None, Quiet, Some(Window(400, 400, None))},
                {<<>>}, MotionBatches, BOOLEAN)
    \cup FrameInputs({{}}, {{}}, {Quiet}, {<<>>}, {<<Motion(800, 0)>>}, BOOLEAN)

\* frames that exercise panning: sets of directional keys, the rotate button
\* up or down, every window above; and frames that scroll as well
PanInputs ==
    FrameInputs({{}, {"ArrowUp"}, {"ArrowDown"}, {"ArrowLeft"}, {"ArrowRight"},
                 {"ArrowUp", "ArrowRight"}, {"ArrowUp", "ArrowDown"},
                 {"ArrowDown", "ArrowLeft", "ArrowRight"}},
                SUBSET {"Middle"}, Windows, {<<>>}, {<<>>}, {TRUE})
    \cup FrameInputs({{}, {"ArrowUp"}}, {{}}, {Some(Window(800, 400, Some(At(10, 200))))},
                     {<<Pixel(500)>>}, {<<>>}, {TRUE})

\* frames in which the rotate button, a scroll and a drag coincide, with and
\* without a key held, and the same frames with no key and the button up;
\* the cursor is inside the left edge band throughout
MixedInputs ==
    FrameInputs({{}, {"ArrowUp"}}, {{"Middle"}},
                {Some(Window(800, 400, Some(At(10, 200))))},
                {<<Pixel(500)>>}, {<<Motion(200, 0)>>}, {TRUE})
    \cup FrameInputs({{}}, {{}}, {Some(Window(800, 400, Some(At(10, 200))))},
                     {<<Pixel(500)>>}, {<<Motion(200, 0)>>}, {TRUE})

NoInput ==
    [button_input |-> {}, mouse_input |-> {}, window |-> None, delta_seconds |-> 0,
     wheel |-> <<>>, motion |-> <<>>, event_update |-> FALSE]

\* values external code may write into target_zoom, both out of range
ExternalZooms == {-(One \div 2), One + One \div 2}

\* one of them
ExternalZoomAbove == {One + One \div 2}

Systems == {"zoom", "pan", "rotate"}

\* ------------------------------------------------------------------ state

\* Every entity is spawned with Camera3dBundle, RtsCamera and
\* RtsCameraControls::default().
Init ==
    /\ cam = [e \in Entities |->
                 [target_focus |-> [translation |-> Vec3_ZERO, rotation |-> 0],
                  target_zoom |-> 0]]
    /\ ctrl = [e \in Entities |-> DefaultControls]
    /\ mouse_wheel = EmptyEvents
    /\ mouse_motion = EmptyEvents
    /\ input = NoInput
    /\ ran = {}
    /\ pc = "idle"
    /\ frame = 0

\* no frame is in progress and external code has not yet acted since the last
FrameOver == pc = "idle" \/ (pc = "frame" /\ ran = Systems)

\* The embedding application flips `enabled` of one entity between frames.
SetEnabled(e) ==
    /\ FrameOver
    /\ ctrl' = [ctrl EXCEPT ![e].enabled = ~@]
    /\ pc' = "external" /\ ran' = {} /\ input' = NoInput
    /\ UNCHANGED <<cam, mouse_wheel, mouse_motion, frame>>

\* External code writes target_zoom of one entity between frames.
WriteTargetZoom(e, z) ==
    /\ FrameOver
    /\ cam' = [cam EXCEPT ![e].target_zoom = z]
    /\ pc' = "external" /\ ran' = {} /\ input' = NoInput
    /\ UNCHANGED <<ctrl, mouse_wheel, mouse_motion, frame>>

\* The backend sends the frame's events, then First runs event_update_system
\* (when signalled), then Update starts.
deliver(ev, batch, event_update) ==
    IF event_update THEN update(send_batch(ev, batch)) ELSE send_batch(ev, batch)

BeginFrame(in) ==
    /\ FrameOver \/ pc = "external"
    /\ frame < MaxFrames
    /\ frame' = frame + 1
    /\ input' = in
    /\ mouse_wheel' = deliver(mouse_wheel, in.wheel, in.event_update)
    /\ mouse_motion' = deliver(mouse_motion, in.motion, in.event_update)
    /\ pc' = "frame" /\ ran' = {}
    /\ UNCHANGED <<cam, ctrl>>

zoom ==
    /\ pc = "frame" /\ "zoom" \notin ran
    /\ LET r == zoom_system(cam, mouse_wheel)
       IN  cam' = r.cam /\ mouse_wheel' = r.events
    /\ ran' = ran \cup {"zoom"}
    /\ UNCHANGED <<ctrl, mouse_motion, input, pc, frame>>

pan ==
    /\ pc = "frame" /\ "pan" \notin ran
    /\ cam' = pan_system(cam, input)
    /\ ran' = ran \cup {"pan"}
    /\ UNCHANGED <<ctrl, mouse_wheel, mouse_motion, input, pc, frame>>

rotate ==
    /\ pc = "frame" /\ "rotate" \notin ran
    /\ LET r == rotate_system(cam, mouse_motion, input)
       IN  cam' = r.cam /\ mouse_motion' = r.events
    /\ ran' = ran \cup {"rotate"}
    /\ UNCHANGED <<ctrl, mouse_wheel, input, pc, frame>>

Step(inputs, zooms) ==
    \/ \E in \in inputs : BeginFrame(in)
    \/ \E e \in Entities : SetEnabled(e)
    \/ \E e \in Entities, z \in zooms : WriteTargetZoom(e, z)
    \/ zoom
    \/ pan
    \/ rotate

Next == Step(MixedInputs, ExternalZoomAbove)

Spec == Init /\ [][Next]_vars

NextZoom == Step(ScrollInputs, ExternalZooms)

SpecZoom == Init /\ [][NextZoom]_vars

NextRotate == Step(DragInputs, ExternalZoomAbove)

SpecRotate == Init /\ [][NextRotate]_vars

\* The first entity is spawned with edge_pan_width 0.0 (edge pan off), the
\* others with the default; pan treats each entity on its own.  All face
\* along -Z, or all an eighth of a turn away from it.
InitPan ==
    /\ \E yaw \in {0, 1} :
          cam = [e \in Entities |->
                    [target_focus |-> [translation |-> Vec3_ZERO, rotation |-> yaw],
                     target_zoom |-> 0]]
    /\ ctrl = [e \in Entities |->
                  [DefaultControls EXCEPT !.edge_pan_width = IF e = 1 THEN 0 ELSE @]]
    /\ mouse_wheel = EmptyEvents
    /\ mouse_motion = EmptyEvents
    /\ input = NoInput
    /\ ran = {}
    /\ pc = "idle"
    /\ frame = 0

\* frames of panning with the configuration left alone
NextPan ==
    \/ \E in \in PanInputs : BeginFrame(in)
    \/ zoom
    \/ pan
    \/ rotate

SpecPan == InitPan /\ [][NextPan]_vars

\* ----------------------------------------------------------------- claims

\* a step in which the named system runs
ZoomStep == pc = "frame" /\ "zoom" \notin ran /\ ran' = ran \cup {"zoom"}

PanStep == pc = "frame" /\ "pan" \notin ran /\ ran' = ran \cup {"pan"}

RotateStep == pc = "frame" /\ "rotate" \notin ran /\ ran' = ran \cup {"rotate"}

Enabled == {e \in Entities : ctrl[e].enabled}

RotatePressed(e) == ctrl[e].button_rotate \in input.mouse_input

\* the directional keys of entity e that are held
KeysHeld(e) ==
    {ctrl[e].key_up, ctrl[e].key_down, ctrl[e].key_left, ctrl[e].key_right}
        \cap input.button_input

\* the cursor is inside the window's left edge band of entity e
CursorInLeftBand(e) ==
    /\ input.window # None
    /\ input.window[1].cursor_position # None
    /\ ctrl[e].edge_pan_width > 0
    /\ input.window[1].cursor_position[1].x * One
           < input.window[1].height * ctrl[e].edge_pan_width

\* C1: once zoom has run in a frame, target_zoom of every enabled entity is
\* within [0.0, 1.0], whatever the scroll events were and whatever value
\* target_zoom held before the frame.
C1_ZoomClamp ==
    (pc = "frame" /\ "zoom" \in ran) =>
        \A e \in Enabled : cam[e].target_zoom >= 0 /\ cam[e].target_zoom <= One

\* C1 witness: in the first frame, with no scroll event at all, zoom has run
\* and an enabled entity sits at 1.0: external code had written 1.5.
C1_Witness ==
    /\ pc = "frame" /\ "zoom" \in ran /\ frame = 1 /\ input.wheel = <<>>
    /\ \E e \in Enabled : cam[e].target_zoom = One

\* C2: no step of zoom, pan or rotate changes any field of the camera state
\* of an entity whose controls are disabled, whatever the frame's input.
C2_DisabledUntouched ==
    [][(ZoomStep \/ PanStep \/ RotateStep) =>
          \A e \in Entities \ Enabled : cam'[e] = cam[e]]_vars

\* C2 witness: all three systems have run in a frame with a key and the
\* rotate button held, the cursor in the edge band, scroll and motion events
\* present, and a disabled entity still holds an out-of-range target_zoom.
C2_Witness ==
    /\ pc = "frame" /\ ran = Systems
    /\ input.wheel # <<>> /\ input.motion # <<>>
    /\ \E e \in Entities \ Enabled :
          /\ cam[e].target_zoom > One
          /\ KeysHeld(e) # {} /\ RotatePressed(e) /\ CursorInLeftBand(e)

\* C3 (as claimed): every enabled entity receives the zoom delta, and with
\* the rotate button held the yaw, that it would receive as the only reader
\* of the events retained for the frame.
C3_Broadcast ==
    [][/\ ZoomStep =>
            \A e \in Enabled :
                cam'[e].target_zoom =
                    new_zoom(cam[e].target_zoom, zoom_amount(read(mouse_wheel)))
       /\ RotateStep =>
            \A e \in Enabled :
                RotatePressed(e) =>
                    cam'[e].target_focus =
                        rotated(cam[e].target_focus, read(mouse_motion), input.window)
      ]_vars

\* pan of entity e in the frame's input with `window` in place of the window
PanWithWindow(e, window) == pan_entity(cam[e], ctrl[e], [input EXCEPT !.window = window])

\* pan of entity e in the frame's input with `buttons` as the mouse buttons held
PanWithButtons(e, buttons) ==
    pan_entity(cam[e], ctrl[e], [input EXCEPT !.mouse_input = buttons])

\* the primary window of the frame with the cursor outside it
CursorAbsent ==
    IF input.window = None THEN None
    ELSE Some([input.window[1] EXCEPT !.cursor_position = None])

\* C4: when the direction accumulated from the directional keys is not zero,
\* pan moves the entity exactly as it would with the cursor absent.
C4_PanExclusive ==
    [][PanStep =>
          \A e \in Enabled :
              keyboard_delta(cam[e], ctrl[e], input) # Vec3_ZERO =>
                  cam'[e] = PanWithWindow(e, CursorAbsent)]_vars

\* C4 witness: pan has run with a key held, the rotate button up and the
\* cursor inside the left edge band of an enabled entity, which has moved.
C4_Witness ==
    /\ pc = "frame" /\ "pan" \in ran /\ frame = 1
    /\ \E e \in Enabled :
          /\ KeysHeld(e) = {ctrl[e].key_up}
          /\ ~RotatePressed(e) /\ CursorInLeftBand(e)
          /\ cam[e].target_focus.translation # Vec3_ZERO

\* the camera, the unread scroll events and the unread motion events
FrameState == [cam |-> cam, wheel |-> mouse_wheel, motion |-> mouse_motion]

RunZoom(s) ==
    LET r == zoom_system(s.cam, s.wheel) IN [s EXCEPT !.cam = r.cam, !.wheel = r.events]

RunPan(s) == [s EXCEPT !.cam = pan_system(s.cam, input)]

RunRotate(s) ==
    LET r == rotate_system(s.cam, s.motion, input)
    IN  [s EXCEPT !.cam = r.cam, !.motion = r.events]

\* the camera state after the three systems in each of their six orders
SixOrders ==
    { RunRotate(RunPan(RunZoom(FrameState))).cam,
      RunPan(RunRotate(RunZoom(FrameState))).cam,
      RunRotate(RunZoom(RunPan(FrameState))).cam,
      RunZoom(RunRotate(RunPan(FrameState))).cam,
      RunPan(RunZoom(RunRotate(FrameState))).cam,
      RunZoom(RunPan(RunRotate(FrameState))).cam }

\* C5 (as claimed): at the start of Update the six orders of zoom, pan and
\* rotate all lead to the same camera state.
C5_OrderIndependent == (pc = "frame" /\ ran = {}) => Cardinality(SixOrders) = 1

\* C6: with edge_pan_width 0.0, no directional key held and the rotate
\* button up, pan leaves the translation as it was, wherever the cursor is.
C6_ZeroWidthDisables ==
    [][PanStep =>
          \A e \in Enabled :
              (ctrl[e].edge_pan_width = 0 /\ KeysHeld(e) = {} /\ ~RotatePressed(e)) =>
                  cam'[e].target_focus.translation = cam[e].target_focus.translation]_vars

\* C6 witness: pan has run for an enabled entity with edge_pan_width 0.0, no
\* key, the rotate button up and the cursor exactly on an edge of the window.
C6_Witness ==
    /\ pc = "frame" /\ "pan" \in ran
    /\ input.window # None /\ input.window[1].cursor_position # None
    /\ \/ input.window[1].cursor_position[1].x = 0
       \/ input.window[1].cursor_position[1].x = input.window[1].width
    /\ \E e \in Enabled :
          ctrl[e].edge_pan_width = 0 /\ KeysHeld(e) = {} /\ ~RotatePressed(e)

\* C7 (as claimed): rotate turns an enabled entity by the yaw of the sum of
\* the frame's motion events when the button is held and a window exists,
\* leaves the orientation alone otherwise, and never changes the translation
\* or target_zoom.
C7_RotateResult ==
    [][RotateStep =>
          \A e \in Enabled :
              /\ cam'[e].target_focus =
                    IF RotatePressed(e)
                    THEN rotated(cam[e].target_focus, input.motion, input.window)
                    ELSE cam[e].target_focus
              /\ cam'[e].target_zoom = cam[e].target_zoom]_vars

\* C8: with the rotate button held and no key held pan leaves the
\* translation as it was, wherever the cursor is; and with a keyboard
\* direction that is not zero pan moves the entity exactly as it would with
\* the rotate button in the other position.
C8_RotateSuppressesEdgePan ==
    [][PanStep =>
          \A e \in Enabled :
              /\ (RotatePressed(e) /\ KeysHeld(e) = {}) =>
                    cam'[e].target_focus.translation = cam[e].target_focus.translation
              /\ keyboard_delta(cam[e], ctrl[e], input) # Vec3_ZERO =>
                    /\ cam'[e] = PanWithButtons(e, {})
                    /\ cam'[e] = PanWithButtons(e, {ctrl[e].button_rotate})]_vars

\* C8 witness: pan has run in the first frame with the rotate button held, no
\* key held and the cursor inside the left edge band of an enabled entity.
C8_Witness ==
    /\ pc = "frame" /\ "pan" \in ran /\ frame = 1
    /\ \E e \in Enabled :
          RotatePressed(e) /\ KeysHeld(e) = {} /\ CursorInLeftBand(e)

\* C9 (as claimed): zoom sets target_zoom of every enabled entity to
\* clamp(old + 0.5 * S, 0, 1), S being the sum over the frame's scroll events.
C9_ZoomFromFrameSum ==
    [][ZoomStep =>
          \A e \in Enabled :
              cam'[e].target_zoom =
                  clamp(cam[e].target_zoom + zoom_amount(input.wheel) \div 2, 0, One)]_vars

\* C10 (as claimed): the yaw rotate applies with the button held comes from
\* the motion events of the frame alone: from all of them, or (for an entity
\* that received none) from none.
C10_NoCarryOver ==
    [][RotateStep =>
          \A e \in Enabled :
              RotatePressed(e) =>
                  cam'[e].target_focus \in
                      { rotated(cam[e].target_focus, input.motion, input.window),
                        cam[e].target_focus }]_vars

====
